---- MODULE Spec2Model ----
(***************************************************************************)
(* A model of beaufort-cast (src/main.py): the photo index built from a    *)
(* year/sub-directory tree (PhotoIndex), its weighted sampler, and the     *)
(* control loop of main() that polls a cast device and issues display      *)
(* commands while it believes it owns the display.                         *)
(*                                                                         *)
(* Strings that the program inspects (directory and file names) are        *)
(* sequences of one-character strings, so that sorting, isnumeric, int,    *)
(* lower and substring tests are computed and not assumed.  Time is an     *)
(* integer clock; one year is TicksPerYear ticks long.                     *)
(***************************************************************************)
EXTENDS Integers, Sequences, FiniteSets, TLC

(***************************************************************************)
(* Bounds of the model.                                                    *)
(***************************************************************************)
\* ticks in one calendar year: year_progress() takes the values k/TicksPerYear
TicksPerYear == 4
\* the clock stops advancing after this many ticks
MaxTime == 5
\* at most this many year directories in the photo directory
MaxYears == 2

(***************************************************************************)
(* Characters and names.                                                   *)
(***************************************************************************)
\* the characters that occur in the modelled names, in code point order
CharOrder ==
    << ".", "0", "1", "2", "3", "4", "5", "6", "7", "8", "9",
       "T", "a", "b", "c", "g", "i", "j", "l", "m", "n", "p", "r", "s", "t", "x" >>

Ord(c) == CHOOSE i \in 1..Len(CharOrder) : CharOrder[i] = c

Digits == << "0", "1", "2", "3", "4", "5", "6", "7", "8", "9" >>

IsDigit(c) == \E i \in 1..Len(Digits) : Digits[i] = c

DigitValue(c) == (CHOOSE i \in 1..Len(Digits) : Digits[i] = c) - 1

\* str.lower() of one character
LowerChar(c) == IF c = "T" THEN "t" ELSE c

\* str.lower()
Lower(s) == [i \in 1..Len(s) |-> LowerChar(s[i])]

\* needle in hay (Python's substring test)
Contains(hay, needle) ==
    \E i \in 0..(Len(hay) - Len(needle)) :
        \A j \in 1..Len(needle) : hay[i + j] = needle[j]

\* str.isnumeric()
IsNumeric(s) == Len(s) > 0 /\ \A i \in 1..Len(s) : IsDigit(s[i])

RECURSIVE ParseInt(_)
\* int(s) of a string of decimal digits
ParseInt(s) ==
    IF Len(s) = 0 THEN 0
    ELSE 10 * ParseInt(SubSeq(s, 1, Len(s) - 1)) + DigitValue(s[Len(s)])

RECURSIVE StrLess(_, _)
\* a < b, Python's comparison of strings (by code point, a prefix first)
StrLess(a, b) ==
    IF Len(b) = 0 THEN FALSE
    ELSE IF Len(a) = 0 THEN TRUE
    ELSE IF a[1] /= b[1] THEN Ord(a[1]) < Ord(b[1])
    ELSE StrLess(Tail(a), Tail(b))

\* x ** n for the integer weights
RECURSIVE Pow(_, _)
Pow(x, n) == IF n = 0 THEN 1 ELSE x * Pow(x, n - 1)

\* round(num / den) for num >= 0, den > 0: Python rounds a tie to the even
\* neighbour
RoundHalfEven(num, den) ==
    LET q == num \div den
        r == num % den
    IN  IF 2 * r < den THEN q
        ELSE IF 2 * r > den THEN q + 1
        ELSE IF q % 2 = 0 THEN q ELSE q + 1

(***************************************************************************)
(* Configuration (os.environ).                                             *)
(***************************************************************************)
PHOTO_DIR == << <<"p">> >>

BLACKLISTED_DIR_NAMES == << <<"t", "m", "p">> >>

PHOTO_INDEX_INTERVAL_SECS == 1

(***************************************************************************)
(* Time.                                                                   *)
(***************************************************************************)
\* the calendar year in which the clock starts
StartYear == 2026

\* datetime.now().year at clock value t
YearOf(t) == StartYear + (t \div TicksPerYear)

\* year_progress(): seconds elapsed in the year over seconds in the year, as
\* the fraction num/den
year_progress(t) == [num |-> t % TicksPerYear, den |-> TicksPerYear]

(***************************************************************************)
(* The photo directory: a tree of directory entries, each directory's      *)
(* entries in the order os.scandir yields them.                            *)
(***************************************************************************)
File(n) == [name |-> n, kind |-> "file", entries |-> <<>>]

Dir(n, es) == [name |-> n, kind |-> "dir", entries |-> es]

N2025 == <<"2", "0", "2", "5">>

N2026 == <<"2", "0", "2", "6">>

N999 == <<"9", "9", "9">>

NMisc == <<"m", "i", "s", "c">>

NTrip == <<"t", "r", "i", "p">>

NAlb == <<"a", "l", "b">>

NTmp == <<"T", "m", "p">>

FPng == <<"a", ".", "p", "n", "g">>

FJpg == <<"b", ".", "j", "p", "g">>

FTxt == <<"n", ".", "t", "x", "t">>

FRaw == <<"r", "a", "x">>

YearNames == {N2025, N2026, N999}

\* what a year directory may hold
YearListings ==
    { <<>>,
      << Dir(NTrip, << File(FPng) >>) >>,
      << Dir(NTrip, << File(FTxt), File(FRaw) >>) >>,
      << Dir(NTrip, << File(FJpg), Dir(NAlb, << File(FPng), File(FTxt) >>) >>),
         File(FPng),
         Dir(NAlb, << File(FPng), File(FJpg) >>) >>,
      << Dir(NTmp, << File(FPng) >>), Dir(NAlb, << Dir(NTmp, << File(FJpg) >>) >>) >> }

RECURSIVE YearDirs(_, _)
\* the year directories of an assignment, latest name first
YearDirs(names, listingOf) ==
    IF names = {} THEN <<>>
    ELSE LET n == CHOOSE x \in names : \A y \in names \ {x} : StrLess(y, x)
         IN  << Dir(n, listingOf[n]) >> \o YearDirs(names \ {n}, listingOf)

\* the photo directories with up to k year directories of the given names and
\* listings, beside a stray file and a directory that is no year
Trees(names, listings, k) ==
    { << File(FPng) >> \o YearDirs(DOMAIN f, f)
          \o << Dir(NMisc, << Dir(NTrip, << File(FPng) >>) >>) >> :
        f \in UNION { [Y -> listings] :
                        Y \in { Z \in SUBSET names : Cardinality(Z) <= k } } }

RECURSIVE Relisted(_)
\* the same directory listed in the opposite order, at every depth
Relisted(listing) ==
    [i \in 1..Len(listing) |->
        LET e == listing[Len(listing) + 1 - i]
        IN  IF e.kind = "dir" THEN Dir(e.name, Relisted(e.entries)) ELSE e]

\* os.scandir yields the entries of a directory in arbitrary order: what one
\* walk over the photo directory may be given
Scans(root) == { root, Relisted(root) }

\* the photo directories the index is built from
PhotoTrees == Trees(YearNames, YearListings, MaxYears)

(***************************************************************************)
(* Indexing.                                                               *)
(***************************************************************************)
None == "None"

SUPPORTED_CONTENT_TYPES ==
    { "image/apng", "image/bmp", "image/gif", "image/jpeg", "image/png", "image/webp" }

\* the extension of a file name, without its dot (posixpath.splitext): what
\* follows the last dot, if a character other than a dot precedes that dot
Extension(name) ==
    LET dots == { i \in 1..Len(name) :
                    name[i] = "." /\ \E j \in 1..(i - 1) : name[j] /= "." }
    IN  IF dots = {} THEN <<>>
        ELSE LET last == CHOOSE i \in dots : \A k \in dots : k <= i
             IN  SubSeq(name, last + 1, Len(name))

\* mimetypes.guess_type(name)[0]
GuessType(name) ==
    LET ext == Lower(Extension(name))
    IN  CASE ext = <<"p", "n", "g">> -> "image/png"
          [] ext = <<"j", "p", "g">> -> "image/jpeg"
          [] ext = <<"g", "i", "f">> -> "image/gif"
          [] ext = <<"b", "m", "p">> -> "image/bmp"
          [] ext = <<"t", "x", "t">> -> "text/plain"
          [] OTHER -> None

is_not_blacklisted(dir_name) ==
    \A k \in 1..Len(BLACKLISTED_DIR_NAMES) :
        ~Contains(Lower(dir_name), Lower(BLACKLISTED_DIR_NAMES[k]))

RECURSIVE collect_files_recursively(_, _)
\* collect_photos_recursively without the list of supported types: every file
\* whose content type could be determined is taken
collect_files_recursively(dir, listing) ==
    IF listing = <<>> THEN <<>>
    ELSE LET entry == Head(listing)
             path == Append(dir, entry.name)
             found ==
                 IF entry.kind = "file"
                 THEN LET content_type == GuessType(entry.name)
                      IN  IF content_type /= None
                          THEN << <<path, content_type>> >>
                          ELSE <<>>
                 ELSE IF is_not_blacklisted(entry.name)
                      THEN collect_files_recursively(path, entry.entries)
                      ELSE <<>>
         IN  found \o collect_files_recursively(dir, Tail(listing))

RECURSIVE collect_photos_recursively(_, _)
\* dir is the path of the directory and listing what os.scandir(dir) yields
collect_photos_recursively(dir, listing) ==
    IF listing = <<>> THEN <<>>
    ELSE LET entry == Head(listing)
             path == Append(dir, entry.name)
             found ==
                 IF entry.kind = "file"
                 THEN LET content_type == GuessType(entry.name)
                      IN  IF content_type /= None /\ content_type \in SUPPORTED_CONTENT_TYPES
                          THEN << <<path, content_type>> >>
                          ELSE <<>>
                 ELSE IF is_not_blacklisted(entry.name)
                      THEN collect_photos_recursively(path, entry.entries)
                      ELSE <<>>
         IN  found \o collect_photos_recursively(dir, Tail(listing))

\* SortByName that keeps the order of the directory listing
ListingOrder(es) == es

RECURSIVE SortByName(_)
\* list.sort(key=lambda x: x.name): the names in one directory are distinct
SortByName(es) ==
    IF es = <<>> THEN <<>>
    ELSE LET i == CHOOSE k \in 1..Len(es) :
                      \A m \in 1..Len(es) : m = k \/ StrLess(es[k].name, es[m].name)
         IN  << es[i] >> \o SortByName(SubSeq(es, 1, i - 1) \o SubSeq(es, i + 1, Len(es)))

\* os.path.relpath(path, PHOTO_DIR) of a path below PHOTO_DIR
RelPath(path) == SubSeq(path, Len(PHOTO_DIR) + 1, Len(path))

IsYearEntry(e) == e.kind = "dir" /\ IsNumeric(e.name) /\ is_not_blacklisted(e.name)

IsSubdirEntry(e) == e.kind = "dir" /\ is_not_blacklisted(e.name)

\* lines 128-147: the year directories, sorted by name
YearEntries(root) == SortByName(SelectSeq(root, IsYearEntry))

RECURSIVE SubdirPhotos(_, _)
\* lines 166-176: the photos of each sub-directory that has any
SubdirPhotos(yearPath, subdirs) ==
    IF subdirs = <<>> THEN <<>>
    ELSE LET subentry == Head(subdirs)
             photos == collect_photos_recursively(Append(yearPath, subentry.name),
                                                  subentry.entries)
             rel == [k \in 1..Len(photos) |-> << RelPath(photos[k][1]), photos[k][2] >>]
         IN  (IF Len(photos) > 0 THEN << rel >> ELSE <<>>)
                 \o SubdirPhotos(yearPath, Tail(subdirs))

\* lines 148-178: one list of sub-directory photo lists for every year entry
YearPhotos(root) ==
    LET year_entries == YearEntries(root)
    IN  [i \in 1..Len(year_entries) |->
            SubdirPhotos(Append(PHOTO_DIR, year_entries[i].name),
                         SortByName(SelectSeq(year_entries[i].entries, IsSubdirEntry)))]

\* lines 185-193: 2**i for the i-th year, the last one scaled by the progress
\* through the year and rounded when it is the current year
YearWeights(n, latest_year, t) ==
    [i \in 1..n |->
        IF i = n /\ latest_year = YearOf(t)
        THEN RoundHalfEven(year_progress(t).num * Pow(2, i - 1), year_progress(t).den)
        ELSE Pow(2, i - 1)]

\* PhotoIndex(): the index built from the photo directory at time t, or the
\* exception that the construction raises
PhotoIndex(root, t) ==
    LET year_entries == YearEntries(root)
        year_photos == YearPhotos(root)
    IN  IF Len(year_entries) = 0
        THEN [raised |-> "IndexError"]
        ELSE [raised |-> None,
              year_photos |-> year_photos,
              year_weights |-> YearWeights(Len(year_photos),
                                           ParseInt(year_entries[Len(year_entries)].name), t),
              time |-> t]

(***************************************************************************)
(* URLs are sequences of characters, as the names are.                     *)
(***************************************************************************)
LOCAL_IP == <<"1","0",".","0",".","0",".","2">>

LISTENING_PORT == <<"8","0","8","0">>

\* the values uuid.uuid4() may give
Keys == { <<"k","1">>, <<"k","2">> }

\* "/".join(parts): a relative path as the string the program holds
RECURSIVE JoinPath(_)
JoinPath(parts) ==
    IF Len(parts) = 0 THEN <<>>
    ELSE IF Len(parts) = 1 THEN parts[1]
    ELSE parts[1] \o <<"/">> \o JoinPath(Tail(parts))

\* the origin of the photo server: f"http://{LOCAL_IP}:{LISTENING_PORT}/"
ServerOrigin == <<"h","t","t","p",":","/","/">> \o LOCAL_IP \o <<":">> \o LISTENING_PORT \o <<"/">>

\* path_to_url(path), with the key of the process
path_to_url(path, key) == ServerOrigin \o JoinPath(path) \o <<"?","k","e","y","=">> \o key

StartsWith(s, prefix) ==
    Len(prefix) <= Len(s) /\ SubSeq(s, 1, Len(prefix)) = prefix

NICOLAS_CAGE ==
    << <<"h","t","t","p","s",":","/","/","i","m","a","g","e","s",".","w","i","r","e","d",".","i","t","/","g","a","l","l","e","r","y","/","1","3","1","6","0","7","/","B","i","g","/","3","7","4","9","3","d","9","6","-","2","b","6","0","-","4","1","6","4","-","b","7","3","0","-","c","c","0","7","1","7","c","3","6","f","1","8",".","j","p","e","g">>,
       <<"h","t","t","p","s",":","/","/","i","0",".","w","p",".","c","o","m","/","w","w","w",".","c","i","n","e","z","a","p","p","i","n","g",".","c","o","m","/","w","p","-","c","o","n","t","e","n","t","/","u","p","l","o","a","d","s","/","2","0","1","1","/","0","1","/","n","i","c","o","l","a","s","-","c","a","g","e","_","0","6",".","j","p","g">>,
       <<"h","t","t","p","s",":","/","/","3",".","b","p",".","b","l","o","g","s","p","o","t",".","c","o","m","/","-","J","Q","q","V","6","0","o","8","x","0","A","/","W","z","e","x","r","j","x","2","U","K","I","/","A","A","A","A","A","A","A","A","B","E","4","/","E","w","r","k","Z","F","h","0","w","Q","4","-","L","X","a","s","s","G","y","O","Z","s","i","W","F","D","g","E","Y","9","b","r","A","C","L","c","B","G","A","s","/","w","1","2","0","0","-","h","6","3","0","-","p","-","k","-","n","o","-","n","u","/","N","i","c","-","C","a","g","e",".","j","p","g">>,
       <<"h","t","t","p","s",":","/","/","l","i","v","e",".","s","t","a","t","i","c","f","l","i","c","k","r",".","c","o","m","/","3","2","4","2","/","5","8","1","8","1","6","0","5","4","7","_","9","d","1","b","b","7","4","4","d","4",".","j","p","g">>,
       <<"h","t","t","p","s",":","/","/","l","i","v","e",".","s","t","a","t","i","c","f","l","i","c","k","r",".","c","o","m","/","1","4","6","1","/","2","5","5","2","4","4","2","7","6","8","2","_","c","3","7","5","7","f","7","9","8","9","_","z",".","j","p","g">>,
       <<"h","t","t","p","s",":","/","/","c","4",".","w","a","l","l","p","a","p","e","r","f","l","a","r","e",".","c","o","m","/","w","a","l","l","p","a","p","e","r","/","4","0","0","/","1","5","8","/","5","6","9","/","n","i","c","o","l","a","s","-","c","a","g","e","-","a","c","t","o","r","-","m","a","n","-","f","a","c","e","-","w","a","l","l","p","a","p","e","r","-","p","r","e","v","i","e","w",".","j","p","g">>,
       <<"h","t","t","p","s",":","/","/","4",".","b","p",".","b","l","o","g","s","p","o","t",".","c","o","m","/","_","N","9","1","x","w","P","-","l","K","v","w","/","T","F","j","S","K","U","-","E","T","Z","I","/","A","A","A","A","A","A","A","A","B","l","c","/","-","m","A","l","r","c","P","N","Z","e","I","/","s","4","0","0","/","n","i","c","k","c","a","g","e","v","a","m","p","k","i","s","s",".","j","p","g">>,
       <<"h","t","t","p","s",":","/","/","i","1",".","w","p",".","c","o","m","/","f","o","r","t","w","o","r","t","h","r","e","p","o","r","t",".","o","r","g","/","w","p","-","c","o","n","t","e","n","t","/","u","p","l","o","a","d","s","/","2","0","2","1","/","0","7","/","P","I","G","0","0","1",".","j","p","e","g">>,
       <<"h","t","t","p","s",":","/","/","u","p","l","o","a","d",".","w","i","k","i","m","e","d","i","a",".","o","r","g","/","w","i","k","i","p","e","d","i","a","/","c","o","m","m","o","n","s","/","c","/","c","0","/","N","i","c","o","l","a","s","_","C","a","g","e","_","D","e","a","u","v","i","l","l","e","_","2","0","1","3",".","j","p","g">>,
       <<"h","t","t","p","s",":","/","/","2",".","b","p",".","b","l","o","g","s","p","o","t",".","c","o","m","/","-","F","G","5","q","h","Z","Y","l","A","9","c","/","U","N","c","j","6","F","B","B","E","g","I","/","A","A","A","A","A","A","A","A","C","G","E","/","L","Y","O","K","b","7","X","m","U","k","U","/","s","1","6","0","0","/","N","i","c","o","l","a","s","-","C","a","g","e",".","j","p","g">>,
       <<"h","t","t","p","s",":","/","/","w","w","w",".","a","b","r","u","z","z","o","2","4","o","r","e",".","t","v","/","i","m","g","/","3","b","c","d","a","8","f","2","a","e","d","2","c","8","f","1","f","d","e","a","1","c","0","2","0","d","a","d","c","f","3","9","/","w","/","1","0","2","4","/","h","/","5","7","6","/","s","c","a","l","e","/","1","6","0","5","7","9",".","j","p","g">>,
       <<"h","t","t","p","s",":","/","/","3",".","b","p",".","b","l","o","g","s","p","o","t",".","c","o","m","/","-","-","e","U","2","d","6","D","y","U","L","I","/","U","O","l","s","I","r","i","c","3","d","I","/","A","A","A","A","A","A","A","A","L","H","E","/","8","j","x","R","5","F","7","e","r","b","c","/","s","1","6","0","0","/","N","i","c","o","l","a","s","-","C","a","g","e","-","n","i","c","o","l","a","s","-","c","a","g","e","-","2","6","9","6","9","9","4","8","-","1","9","8","9","-","1","3","0","0",".","j","p","g">>,
       <<"h","t","t","p","s",":","/","/","l","i","v","e",".","s","t","a","t","i","c","f","l","i","c","k","r",".","c","o","m","/","1","/","1","3","1","9","8","3","7","7","4","_","7","e","b","5","8","6","7","7","0","f","_","b",".","j","p","g">>,
       <<"h","t","t","p","s",":","/","/","i","m","a","g","e","s",".","u","n","c","y","c",".","o","r","g","/","p","t","/","1","/","1","1","/","N","i","c","o","l","a","s","c","a","g","e","_","(","1","4",")",".","j","p","g">>,
       <<"h","t","t","p","s",":","/","/","1",".","b","p",".","b","l","o","g","s","p","o","t",".","c","o","m","/","-","u","F","k","L","5","_","X","c","i","y","U","/","U","O","l","s","v","n","M","B","x","4","I","/","A","A","A","A","A","A","A","A","L","H","U","/","v","n","R","j","0","e","h","m","G","Y","g","/","s","1","6","0","0","/","t","u","m","b","l","r","_","l","3","1","p","8","i","O","e","C","6","1","q","a","0","6","e","2","o","1","_","5","0","0",".","j","p","g">>,
       <<"h","t","t","p","s",":","/","/","1",".","b","p",".","b","l","o","g","s","p","o","t",".","c","o","m","/","-","n","X","h","i","Q","U","_","2","D","t","A","/","U","a","x","y","a","_","R","U","J","R","I","/","A","A","A","A","A","A","A","A","G","a","U","/","M","6","f","N","y","E","1","2","z","e","M","/","s","1","6","0","0","/","S","t","r","i","n","g","y","+","M","u","l","l","e","t",".","j","p","g">>,
       <<"h","t","t","p","s",":","/","/","w","w","w",".","i","n","t","e","r","n","e","r","d","z",".","c","o","m",".","b","r","/","w","p","-","c","o","n","t","e","n","t","/","u","p","l","o","a","d","s","/","2","0","1","9","/","0","9","/","N","i","c","o","l","a","s","-","C","a","g","e","-","b","a","c","k","g","r","o","u","n","d","s","-","u","l","t","r","a","-","h","d",".","p","n","g">>,
       <<"h","t","t","p","s",":","/","/","c","4",".","w","a","l","l","p","a","p","e","r","f","l","a","r","e",".","c","o","m","/","w","a","l","l","p","a","p","e","r","/","4","6","/","3","5","7","/","1","9","1","/","m","o","v","i","e","-","f","a","c","e","-","o","f","f","-","n","i","c","o","l","a","s","-","c","a","g","e","-","w","a","l","l","p","a","p","e","r","-","t","h","u","m","b",".","j","p","g">>,
       <<"h","t","t","p","s",":","/","/","i","0",".","w","p",".","c","o","m","/","w","w","w",".","c","i","n","e","z","a","p","p","i","n","g",".","c","o","m","/","w","p","-","c","o","n","t","e","n","t","/","u","p","l","o","a","d","s","/","2","0","1","0","/","0","8","/","N","i","c","o","l","a","s","-","C","a","g","e","-","n","e","-","L","a","p","p","r","e","n","d","i","s","t","a","-","s","t","r","e","g","o","n","e",".","j","p","g">>,
       <<"h","t","t","p","s",":","/","/","w","w","w",".","t","a","l","k","i","n","g","d","r","u","g","s",".","o","r","g","/","s","i","t","e","s","/","d","e","f","a","u","l","t","/","f","i","l","e","s","/","i","m","a","g","e","s","/","c","a","g","e","-","w","i","c","k","e","r","-","m","a","n",".","j","p","g">>,
       <<"h","t","t","p","s",":","/","/","c","4",".","w","a","l","l","p","a","p","e","r","f","l","a","r","e",".","c","o","m","/","w","a","l","l","p","a","p","e","r","/","3","2","5","/","7","6","2","/","5","6","5","/","n","i","c","o","l","a","s","-","c","a","g","e","-","w","a","l","l","p","a","p","e","r","-","p","r","e","v","i","e","w",".","j","p","g">>,
       <<"h","t","t","p","s",":","/","/","m","u","l","t","i","g","l","o","m",".","f","i","l","e","s",".","w","o","r","d","p","r","e","s","s",".","c","o","m","/","2","0","1","5","/","0","1","/","w","i","l","d","c","a","g","e","0","1",".","j","p","g">>,
       <<"h","t","t","p","s",":","/","/","4",".","b","p",".","b","l","o","g","s","p","o","t",".","c","o","m","/","_","N","9","1","x","w","P","-","l","K","v","w","/","T","F","j","R","4","Y","Q","U","1","t","I","/","A","A","A","A","A","A","A","A","B","k","8","/","0","V","B","l","X","R","L","3","V","B","k","/","s","1","6","0","0","/","t","h","e","+","r","o","c","k",".","j","p","g">>,
       <<"h","t","t","p","s",":","/","/","i","0",".","w","p",".","c","o","m","/","w","w","w",".","c","i","n","e","z","a","p","p","i","n","g",".","c","o","m","/","w","p","-","c","o","n","t","e","n","t","/","u","p","l","o","a","d","s","/","2","0","1","0","/","0","8","/","N","i","c","o","l","a","s","-","C","a","g","e","-","i","n","-","G","h","o","s","t","-","R","i","d","e","r",".","j","p","g">>,
       <<"h","t","t","p","s",":","/","/","c","d","n",".","p","a","s","t","e","m","a","g","a","z","i","n","e",".","c","o","m","/","w","w","w","/","s","y","s","t","e","m","/","i","m","a","g","e","s","/","p","h","o","t","o","_","a","l","b","u","m","s","/","n","i","c","o","l","a","s","-","c","a","g","e","/","l","a","r","g","e","/","0","2","-","c","a","g","e","-","v","a","l","l","e","y","g","i","r","l",".","j","p","g">>,
       <<"h","t","t","p","s",":","/","/","l","l","-","m","e","d","i","a",".","t","m","z",".","c","o","m","/","2","0","1","6","/","1","2","/","0","8","/","f","a","s","t","-","t","i","m","e","s","-","m","e","m","b","a","-","0","5","-","4","8","0","w",".","j","p","g">>,
       <<"h","t","t","p","s",":","/","/","e","x","t","e","r","n","a","l","-","p","r","e","v","i","e","w",".","r","e","d","d",".","i","t","/","A","C","j","j","H","1","6","x","t","R","9","P","1","G","B","v","L","x","-","y","k","Z","d","Z","1","W","5","R","A","8","C","S","D","I","n","n","S","b","B","g","w","W","k",".","j","p","g","?","a","u","t","o","=","w","e","b","p","&","s","=","c","a","4","b","d","3","6","5","e","5","d","f","e","b","d","9","c","8","c","3","b","7","d","7","b","e","0","d","c","7","8","2","7","0","2","8","6","2","e","1">>,
       <<"h","t","t","p","s",":","/","/","w","w","w",".","s","l","a","s","h","f","i","l","m",".","c","o","m","/","i","m","g","/","g","a","l","l","e","r","y","/","n","i","c","o","l","a","s","-","c","a","g","e","-","c","o","u","l","d","n","t","-","l","a","n","d","-","a","-","d","a","v","i","d","-","l","y","n","c","h","-","c","a","m","e","o","-","f","o","r","-","t","h","e","-","u","n","b","e","a","r","a","b","l","e","-","w","e","i","g","h","t","-","o","f","-","m","a","s","s","i","v","e","-","t","a","l","e","n","t","/","t","h","e","-","n","i","c","o","l","a","s","-","c","a","g","e","d","a","v","i","d","-","l","y","n","c","h","-","r","e","u","n","i","o","n","-","w","e","-","d","e","s","e","r","v","e","d","-","1","6","5","0","0","2","7","1","6","3",".","j","p","g">>,
       <<"h","t","t","p","s",":","/","/","i","1",".","w","p",".","c","o","m","/","f","i","l","m","-","b","o","o","k",".","c","o","m","/","w","p","-","c","o","n","t","e","n","t","/","u","p","l","o","a","d","s","/","2","0","1","7","/","0","4","/","n","i","c","o","l","a","s","-","c","a","g","e","-","w","i","n","d","t","a","l","k","e","r","s","-","0","1","-","6","0","0","x","3","5","0",".","j","p","g">>,
       <<"h","t","t","p","s",":","/","/","m","u","l","t","i","g","l","o","m",".","f","i","l","e","s",".","w","o","r","d","p","r","e","s","s",".","c","o","m","/","2","0","1","5","/","0","1","/","t","h","e","-","r","o","c","k","-","1","9","9","6",".","j","p","g">>,
       <<"h","t","t","p","s",":","/","/","m","u","s","i","n","g","s","f","r","o","m","u","s",".","c","o","m","/","w","p","-","c","o","n","t","e","n","t","/","u","p","l","o","a","d","s","/","2","0","1","2","/","0","9","/","G","o","n","e","-","I","n","-","6","0","-","S","e","c","o","n","d","s","-","2","0","0","0","-","S","c","r","e","e","n","S","h","o","t","-","0","8","8",".","j","p","g">>,
       <<"h","t","t","p","s",":","/","/","a","s","s","e","t","s",".","a","c","a","s","a","t","v",".","r","o","/","a","s","s","e","t","s","/","a","c","a","s","a","t","v","/","2","0","1","0","/","0","5","/","0","7","/","i","m","a","g","e","_","g","a","l","l","e","r","i","e","s","/","2","1","3","0","/","v","a","m","p","i","r","i","i","-","f","a","c","-","v","a","l","v","a","-","l","a","-","h","o","l","l","y","w","o","o","d","-","g","a","l","e","r","i","e","-","f","o","t","o","_","1","2",".","j","p","g">>,
       <<"h","t","t","p","s",":","/","/","m","u","l","t","i","g","l","o","m",".","f","i","l","e","s",".","w","o","r","d","p","r","e","s","s",".","c","o","m","/","2","0","1","5","/","0","1","/","b","i","r","d","y",".","p","n","g">>,
       <<"h","t","t","p","s",":","/","/","m","u","s","i","n","g","s","f","r","o","m","u","s",".","c","o","m","/","w","p","-","c","o","n","t","e","n","t","/","u","p","l","o","a","d","s","/","2","0","1","2","/","0","7","/","N","a","t","i","o","n","a","l","-","T","r","e","a","s","u","r","e","-","2","0","0","4","-","S","c","r","e","e","n","S","h","o","t","-","1","2","1",".","j","p","g">>,
       <<"h","t","t","p","s",":","/","/","3",".","b","p",".","b","l","o","g","s","p","o","t",".","c","o","m","/","-","r","n","g","1","4","5","W","C","K","P","Q","/","T","6","m","i","8","M","8","H","o","5","I","/","A","A","A","A","A","A","A","A","A","E","c","/","C","a","Z","f","H","8","d","V","L","G","A","/","s","1","6","0","0","/","W","e","a","t","h","e","r","M","a","n","0","6",".","j","p","g">>,
       <<"h","t","t","p","s",":","/","/","d","e",".","w","e","b",".","i","m","g","3",".","a","c","s","t","a",".","n","e","t","/","r","_","1","2","8","0","_","7","2","0","/","m","e","d","i","a","s","/","n","m","e","d","i","a","/","1","8","/","3","5","/","5","1","/","5","3","/","1","8","4","5","8","2","9","4",".","j","p","g">>,
       <<"h","t","t","p","s",":","/","/","w","w","w",".","e","p","i","s","o","d","i",".","f","i","/","w","p","-","c","o","n","t","e","n","t","/","u","p","l","o","a","d","s","/","n","i","c","o","l","a","s","-","c","a","g","e","-","w","o","r","l","d","-","t","r","a","d","e","-","c","e","n","t","e","r",".","j","p","g">>,
       <<"h","t","t","p","s",":","/","/","1",".","b","p",".","b","l","o","g","s","p","o","t",".","c","o","m","/","-","W","Z","R","y","O","w","s","f","E","-","8","/","U","1","b","V","Z","b","e","M","K","9","I","/","A","A","A","A","A","A","A","A","A","M","Y","/","J","E","e","1","I","e","4","G","5","f","E","/","s","1","6","0","0","/","n","i","c","o","l","a","s","-","c","a","g","e","-","f","u","-","m","a","n","c","h","u","-","g","r","i","n","d","h","o","u","s","e",".","j","p","g">>,
       <<"h","t","t","p","s",":","/","/","m","u","l","t","i","g","l","o","m",".","f","i","l","e","s",".","w","o","r","d","p","r","e","s","s",".","c","o","m","/","2","0","1","5","/","0","1","/","b","a","d","l","i","e","u","0","2",".","j","p","g">>,
       <<"h","t","t","p","s",":","/","/","2",".","b","p",".","b","l","o","g","s","p","o","t",".","c","o","m","/","-","1","L","y","V","z","M","x","N","m","7","Q","/","W","8","3","_","4","T","Y","m","Z","K","I","/","A","A","A","A","A","A","A","A","A","I","Y","/","s","j","k","z","p","c","F","y","o","F","Y","V","J","_","o","u","s","N","s","2","u","5","A","G","E","T","V","X","h","G","L","d","w","C","L","c","B","G","A","s","/","s","1","6","0","0","/","N","i","c","%","2","5","2","B","C","a","g","e",".","p","n","g">>,
       <<"h","t","t","p","s",":","/","/","w","w","w",".","y","a","m","-","m","a","g",".","c","o","m","/","w","p","-","c","o","n","t","e","n","t","/","u","p","l","o","a","d","s","/","2","0","1","2","/","0","5","/","n","i","c","h","o","l","a","s","-","c","a","g","e","-","k","i","c","k","-","a","s","s",".","j","p","g">> >>

(***************************************************************************)
(* The sampler.                                                            *)
(***************************************************************************)
RECURSIVE SumTo(_, _)
\* the cumulative weight of the first k entries
SumTo(weights, k) == IF k = 0 THEN 0 ELSE SumTo(weights, k - 1) + weights[k]

\* random.choices(population, weights, k=1) raises ValueError when the total
\* of the weights is not positive
ChoicesRaises(weights) == SumTo(weights, Len(weights)) <= 0

\* random.choices(population, weights, k=1)[0]: the indices a draw may give,
\* one for every value floor(random() * total) of the draw, each located by
\* bisection in the cumulative weights
Choices(weights) ==
    LET n == Len(weights)
        total == SumTo(weights, n)
    IN  { Cardinality({ k \in 1..(n - 1) : SumTo(weights, k) <= u }) + 1 :
            u \in 0..(total - 1) }

\* random.choice(seq) raises IndexError when seq is empty
ChoiceRaises(seq) == Len(seq) = 0

\* random.choice(seq): the indices a draw may give
Choice(seq) == 1..Len(seq)

\* what a call gives: the value it returns, or the exception it raises
Returned(photo) == [raised |-> None, photo |-> photo]

Raised(e) == [raised |-> e, photo |-> <<>>]

\* get_random_photo that draws any year when the weights have no positive
\* total
get_random_photo_any_year(idx) ==
    UNION {
      IF ChoiceRaises(idx.year_photos[y]) THEN { Raised("IndexError") }
      ELSE UNION {
             IF ChoiceRaises(idx.year_photos[y][d]) THEN { Raised("IndexError") }
             ELSE { Returned(idx.year_photos[y][d][f]) :
                      f \in Choice(idx.year_photos[y][d]) } :
             d \in Choice(idx.year_photos[y]) } :
      y \in IF ChoicesRaises(idx.year_weights) THEN 1..Len(idx.year_weights)
            ELSE Choices(idx.year_weights) }

\* PhotoIndex.get_random_photo(): every photo a call may return and every
\* exception it may raise
get_random_photo(idx) ==
    IF ChoicesRaises(idx.year_weights) THEN { Raised("ValueError") }
    ELSE UNION {
           IF ChoiceRaises(idx.year_photos[y]) THEN { Raised("IndexError") }
           ELSE UNION {
                  IF ChoiceRaises(idx.year_photos[y][d]) THEN { Raised("IndexError") }
                  ELSE { Returned(idx.year_photos[y][d][f]) :
                           f \in Choice(idx.year_photos[y][d]) } :
                  d \in Choice(idx.year_photos[y]) } :
           y \in Choices(idx.year_weights) }

\* is_outdated that takes an index of exactly the interval's age for outdated
is_outdated_at_interval(idx, t) == (t - idx.time) >= PHOTO_INDEX_INTERVAL_SECS

\* PhotoIndex.is_outdated() at time t
is_outdated(idx, t) == (t - idx.time) > PHOTO_INDEX_INTERVAL_SECS

(***************************************************************************)
(* The cast device, as the program sees it.                                *)
(***************************************************************************)
Backdrop == "Backdrop"

DefaultMediaReceiver == "Default Media Receiver"

\* content another application shows through the media receiver
NoContent == <<>>

\* cast.status while the status is unknown (None)
NoStatus == [present |-> FALSE, display_name |-> None]

\* a cast.status that shows the application of that name
Status(name) == [present |-> TRUE, display_name |-> name]

ForeignContent == <<"h", "t", "t", "p", ":", "/", "/", "o", "/", "v">>

\* content a previous run of this program served (its key is that run's)
OwnContent == path_to_url(<< N2026, NTrip, FPng >>, <<"k", "0">>)

\* what the device may report: cast.status (None while unknown) and the
\* content the media receiver shows
DeviceStates ==
    { [status |-> NoStatus, content_id |-> NoContent],
      [status |-> Status(Backdrop), content_id |-> NoContent],
      [status |-> Status("Netflix"), content_id |-> NoContent],
      [status |-> Status(DefaultMediaReceiver), content_id |-> OwnContent],
      [status |-> Status(DefaultMediaReceiver), content_id |-> ForeignContent] }

\* the values of variables that hold nothing yet
NoKey == <<>>

NoIndex == [raised |-> "unbound"]

NoCommand == [url |-> <<>>, content_type |-> None]

NoSample == [raised |-> "no call", photo |-> <<>>]

(***************************************************************************)
(* State.                                                                  *)
(***************************************************************************)
VARIABLES
    fs,             \* the photo directory
    now,            \* the clock
    device,         \* the cast device's state
    pc,             \* where main() stands
    error,          \* the exception that ended the process, or None
    key,            \* the key of the photo server
    index,          \* the PhotoIndex main() holds, or NoIndex
    played,         \* the display command being shown, or NoCommand
    classified,     \* how the current outer iteration classified the device
    unavailable,    \* consecutive outer polls that found no status, up to the
                    \* end of the iteration that follows them
    commands,       \* display commands issued in the current outer iteration
    sample          \* what the last get_random_photo() call gave, or NoSample

vars == << fs, now, device, pc, error, key, index, played, classified,
           unavailable, commands, sample >>

\* consecutive unavailable polls are counted up to this
MaxPolls == 2
\* display commands in one outer iteration are counted up to this
MaxCommands == 2

Min(a, b) == IF a < b THEN a ELSE b

\* the photo directories main() is started on: no year directory, or the
\* directory of the start year, empty or with one photo
MainTrees ==
    Trees({N2026}, { <<>>, << Dir(NTrip, << File(FPng) >>) >> }, MaxYears)

Init ==
    /\ fs \in MainTrees
    /\ now = 0
    /\ device \in DeviceStates
    /\ pc = "start"
    /\ error = None
    /\ key = NoKey
    /\ index = NoIndex
    /\ played = NoCommand
    /\ classified = "none"
    /\ unavailable = 0
    /\ commands = 0
    /\ sample = NoSample

history == << classified, unavailable, commands >>

env == << fs, now, device >>

\* an uncaught exception ends the process
Raise(e) ==
    /\ pc' = "crashed"
    /\ error' = e

\* Rebuild that assigns the index before the construction has finished: a
\* failed construction leaves what it had collected so far
RebuildPartial(next) ==
    \/ /\ Raise("OSError")
       /\ index' = [raised |-> None, year_photos |-> <<>>, year_weights |-> <<>>,
                    time |-> now]
    \/ \E scan \in Scans(fs) :
          /\ PhotoIndex(scan, now).raised /= None
          /\ Raise(PhotoIndex(scan, now).raised)
          /\ index' = [raised |-> None, year_photos |-> <<>>, year_weights |-> <<>>,
                       time |-> now]
    \/ \E scan \in Scans(fs) :
          /\ PhotoIndex(scan, now).raised = None
          /\ index' = PhotoIndex(scan, now)
          /\ pc' = next
          /\ UNCHANGED error

\* index = PhotoIndex(): os.scandir may fail (OSError), the construction may
\* raise, and otherwise the new index replaces the old one
Rebuild(next) ==
    \/ /\ Raise("OSError")
       /\ UNCHANGED index
    \/ \E scan \in Scans(fs) :
          /\ PhotoIndex(scan, now).raised /= None
          /\ Raise(PhotoIndex(scan, now).raised)
          /\ UNCHANGED index
    \/ \E scan \in Scans(fs) :
          /\ PhotoIndex(scan, now).raised = None
          /\ index' = PhotoIndex(scan, now)
          /\ pc' = next
          /\ UNCHANGED error

\* if index.is_outdated(): index = PhotoIndex()
RefreshIfOutdated(next) ==
    IF is_outdated(index, now)
    THEN Rebuild(next)
    ELSE pc' = next /\ UNCHANGED << index, error >>

\* lines 224-231: the key and the server thread
Startup ==
    /\ pc = "start"
    /\ key' \in Keys
    /\ pc' = "index"
    /\ UNCHANGED << env, error, index, played, history, sample >>

\* line 233
FirstIndex ==
    /\ pc = "index"
    /\ Rebuild("discover")
    /\ UNCHANGED << env, key, played, history, sample >>

\* lines 238-245: exactly one device of the configured name must be found
Discover ==
    /\ pc = "discover"
    /\ \E found \in 0..2 :
          pc' = IF found = 1 THEN "loop" ELSE "exited"
    /\ UNCHANGED << env, error, key, index, played, history, sample >>

\* lines 248-249
LoopRefresh ==
    /\ pc = "loop"
    /\ RefreshIfOutdated("wait")
    /\ UNCHANGED << env, key, played, history, sample >>

\* line 250
Wait ==
    /\ pc = "wait"
    /\ pc' = "check"
    /\ UNCHANGED << env, error, key, index, played, history, sample >>

\* CheckStatus without its test: a missing status is taken for an idle device
CheckStatusUnguarded ==
    /\ pc = "check"
    /\ IF device.status.present
       THEN /\ pc' = "name_backdrop"
            /\ UNCHANGED << classified, unavailable >>
       ELSE /\ pc' = "session"
            /\ unavailable' = Min(unavailable + 1, MaxPolls)
            /\ classified' = "unavailable"
    /\ UNCHANGED << env, error, key, index, played, commands, sample >>

\* lines 253, 280-281: is there a status
CheckStatus ==
    /\ pc = "check"
    /\ IF device.status.present
       THEN /\ pc' = "name_backdrop"
            /\ UNCHANGED << classified, unavailable >>
       ELSE /\ pc' = "poll_sleep"
            /\ unavailable' = Min(unavailable + 1, MaxPolls)
            /\ classified' = "unavailable"
    /\ UNCHANGED << env, error, key, index, played, commands, sample >>

\* cast.status.display_name, read now: the attribute of None raises
DisplayNameIs(name) == device.status.present /\ device.status.display_name = name

\* lines 255-257: the first comparison of the condition
CompareBackdrop ==
    /\ pc = "name_backdrop"
    /\ IF ~device.status.present
       THEN Raise("AttributeError") /\ UNCHANGED classified
       ELSE /\ IF DisplayNameIs(Backdrop)
               THEN pc' = "session" /\ classified' = "eligible"
               ELSE pc' = "name_receiver" /\ UNCHANGED classified
            /\ UNCHANGED error
    /\ UNCHANGED << env, key, index, played, unavailable, commands, sample >>

\* CompareReceiver that casts over whatever the device shows
CompareReceiverAnyApp ==
    /\ pc = "name_receiver"
    /\ IF ~device.status.present
       THEN Raise("AttributeError") /\ UNCHANGED classified
       ELSE /\ IF DisplayNameIs(DefaultMediaReceiver)
               THEN pc' = "session" /\ classified' = "eligible"
               ELSE pc' = "session" /\ classified' = "busy"
            /\ UNCHANGED error
    /\ UNCHANGED << env, key, index, played, unavailable, commands, sample >>

\* lines 258-262, 278-279: the second comparison of the condition
CompareReceiver ==
    /\ pc = "name_receiver"
    /\ IF ~device.status.present
       THEN Raise("AttributeError") /\ UNCHANGED classified
       ELSE /\ IF DisplayNameIs(DefaultMediaReceiver)
               THEN pc' = "session" /\ classified' = "eligible"
               ELSE pc' = "poll_sleep" /\ classified' = "busy"
            /\ UNCHANGED error
    /\ UNCHANGED << env, key, index, played, unavailable, commands, sample >>

\* lines 266-267
SessionRefresh ==
    /\ pc = "session"
    /\ RefreshIfOutdated("play")
    /\ UNCHANGED << env, key, played, history, sample >>

\* line 270
NicContentType(nic_url) ==
    IF Contains(nic_url, <<".", "p", "n", "g">>) THEN "image/png" ELSE "image/jpeg"

\* lines 269-271: the display command
PlayMedia ==
    /\ pc = "play"
    /\ \E i \in 1..Len(NICOLAS_CAGE) :
          played' = [url |-> NICOLAS_CAGE[i],
                     content_type |-> NicContentType(NICOLAS_CAGE[i])]
    /\ commands' = Min(commands + 1, MaxCommands)
    /\ pc' = "display_sleep"
    /\ UNCHANGED << env, error, key, index, classified, unavailable, sample >>

\* DisplaySleep that goes on to the next command without the status check
DisplaySleepUnchecked ==
    /\ pc = "display_sleep"
    /\ pc' = "session"
    /\ played' = NoCommand
    /\ UNCHANGED << env, error, key, index, history, sample >>

\* line 273
DisplaySleep ==
    /\ pc = "display_sleep"
    /\ pc' = "recheck"
    /\ played' = NoCommand
    /\ UNCHANGED << env, error, key, index, history, sample >>

\* Recheck that leaves the session only for the ambient mode
RecheckOnlyBackdrop ==
    /\ pc = "recheck"
    /\ IF ~device.status.present
       THEN Raise("AttributeError") /\ UNCHANGED classified
       ELSE /\ IF DisplayNameIs(Backdrop)
               THEN pc' = "poll_sleep" /\ classified' = "ended"
               ELSE pc' = "session" /\ UNCHANGED classified
            /\ UNCHANGED error
    /\ UNCHANGED << env, key, index, played, unavailable, commands, sample >>

\* lines 274-277: do we still have control
Recheck ==
    /\ pc = "recheck"
    /\ IF ~device.status.present
       THEN Raise("AttributeError") /\ UNCHANGED classified
       ELSE /\ IF ~DisplayNameIs(DefaultMediaReceiver)
               THEN pc' = "poll_sleep" /\ classified' = "ended"
               ELSE pc' = "session" /\ UNCHANGED classified
            /\ UNCHANGED error
    /\ UNCHANGED << env, key, index, played, unavailable, commands, sample >>

\* line 283
PollSleep ==
    /\ pc = "poll_sleep"
    /\ pc' = "loop"
    /\ classified' = "none"
    /\ commands' = 0
    /\ unavailable' = IF classified = "unavailable" THEN unavailable ELSE 0
    /\ UNCHANGED << env, error, key, index, played, sample >>

Running == pc \notin {"crashed", "exited"}

\* the device changes state on its own
DeviceChanges ==
    /\ Running
    /\ device' \in DeviceStates \ {device}
    /\ UNCHANGED << fs, now, pc, error, key, index, played, history, sample >>

\* time passes
Tick ==
    /\ Running
    /\ now < MaxTime
    /\ now' = now + 1
    /\ UNCHANGED << fs, device, pc, error, key, index, played, history, sample >>

Next ==
    \/ Startup
    \/ FirstIndex
    \/ Discover
    \/ LoopRefresh
    \/ Wait
    \/ CheckStatus
    \/ CompareBackdrop
    \/ CompareReceiver
    \/ SessionRefresh
    \/ PlayMedia
    \/ DisplaySleep
    \/ Recheck
    \/ PollSleep
    \/ DeviceChanges
    \/ Tick

Spec == Init /\ [][Next]_vars

(***************************************************************************)
(* The index and its sampler on their own: the index is built from any of  *)
(* the photo directories at any time, and sampled.                         *)
(***************************************************************************)
InitIndex ==
    /\ fs \in PhotoTrees
    /\ now = 0
    /\ device = [status |-> NoStatus, content_id |-> NoContent]
    /\ pc = "library"
    /\ error = None
    /\ key = NoKey
    /\ index = NoIndex
    /\ played = NoCommand
    /\ classified = "none"
    /\ unavailable = 0
    /\ commands = 0
    /\ sample = NoSample

\* index = PhotoIndex(), the exception kept when the construction raises
BuildIndex ==
    /\ pc = "library"
    /\ \E scan \in Scans(fs) :
          IF PhotoIndex(scan, now).raised /= None
          THEN error' = PhotoIndex(scan, now).raised /\ UNCHANGED index
          ELSE index' = PhotoIndex(scan, now) /\ error' = None
    /\ sample' = NoSample
    /\ UNCHANGED << env, pc, key, played, history >>

\* index.get_random_photo()
SamplePhoto ==
    /\ pc = "library"
    /\ index /= NoIndex
    /\ sample' \in get_random_photo(index)
    /\ UNCHANGED << env, pc, error, key, index, played, history >>

NextIndex ==
    \/ BuildIndex
    \/ SamplePhoto
    \/ Tick

SpecIndex == InitIndex /\ [][NextIndex]_vars

(***************************************************************************)
(* Both callers of the index together: main(), or a caller that builds and *)
(* samples an index.                                                       *)
(***************************************************************************)
InitAll ==
    \/ Init
    \/ InitIndex /\ fs \in MainTrees

NextAll ==
    \/ Next
    \/ BuildIndex
    \/ SamplePhoto

SpecAll == InitAll /\ [][NextAll]_vars

(***************************************************************************)
(* Properties.                                                             *)
(***************************************************************************)
\* the URLs main() has fetched itself before it commands the device to show
\* them: lines 265-275 hand the URL to play_media and fetch nothing
Prefetched == {}

\* a step of main() (the device and the clock move without changing pc)
MainStep == pc' /= pc

\* the step that issues a display command
IssuesCommand == pc = "play" /\ pc' = "display_sleep"

\* the device shows an application that is neither the ambient mode nor the
\* media receiver
ShowsOtherApp ==
    /\ device.status.present
    /\ device.status.display_name \notin {Backdrop, DefaultMediaReceiver}

\* C1: an outer iteration whose poll finds no status issues no display
\* command and goes to the poll sleep, from which main() polls again; and
\* whatever number of such polls came before, a poll that reads the ambient
\* mode enters the casting session in its iteration.
C1_UnavailableNeverCasts ==
    [][ /\ (pc = "check" /\ MainStep /\ ~device.status.present) =>
              (pc' = "poll_sleep" /\ classified' = "unavailable" /\ played' = NoCommand)
        /\ classified' = "unavailable" =>
              (commands' = 0 /\ pc' = "poll_sleep" /\ played' = NoCommand)
        /\ (classified = "unavailable" /\ MainStep) => pc' = "loop"
        /\ (pc = "name_backdrop" /\ MainStep /\ DisplayNameIs(Backdrop)) =>
              (pc' = "session" /\ classified' = "eligible")
      ]_vars

\* C1 witness: MaxPolls polls in a row found no status, the next one found
\* the ambient mode, and the session it started has issued a display command
C1_Witness ==
    /\ unavailable = MaxPolls
    /\ classified = "eligible"
    /\ pc = "display_sleep"
    /\ commands = 1

\* C2: every display command carries the URL (through path_to_url, with the
\* key of the process) and the media type of a photo of the index main()
\* holds.
SnapshotCommands ==
    UNION { UNION { { [url |-> path_to_url(index.year_photos[y][d][f][1], key),
                       content_type |-> index.year_photos[y][d][f][2]] :
                        f \in 1..Len(index.year_photos[y][d]) } :
                    d \in 1..Len(index.year_photos[y]) } :
            y \in 1..Len(index.year_photos) }

C2_CommandsFromSnapshot ==
    [][ IssuesCommand => played' \in SnapshotCommands ]_vars

\* C3: the media receiver's identity starts a session only if the content
\* shown comes from this program's photo server.
C3_ResumeOnlyOwnContent ==
    [][ (pc = "name_receiver" /\ pc' = "session") =>
            StartsWith(device.content_id, ServerOrigin) ]_vars

\* C4: the process never ends because the device status is missing.
C4_SurvivesMissingStatus == error /= "AttributeError"

\* C5: the process never ends because reading the photo directory failed
\* during an index rebuild.
C5_SurvivesSourceFailure == error /= "OSError"

\* C6: a status read after the display sleep that does not show the media
\* receiver ends the session: main() goes to the poll sleep and on to the
\* next poll, and a display command is only ever issued in an iteration
\* that classified the device as eligible and has not ended its session.
C6_SessionEndsOnLostControl ==
    [][ /\ (pc = "recheck" /\ MainStep /\ device.status.present
               /\ ~DisplayNameIs(DefaultMediaReceiver)) =>
              (pc' = "poll_sleep" /\ classified' = "ended")
        /\ classified' = "ended" =>
              (pc' = "poll_sleep" /\ played' = NoCommand /\ commands' = commands)
        /\ (classified = "ended" /\ MainStep) => pc' = "loop"
        /\ IssuesCommand => classified = "eligible"
      ]_vars

\* C6 witness: a session that issued a display command has ended
C6_Witness ==
    /\ classified = "ended"
    /\ pc = "poll_sleep"
    /\ commands >= 1

\* C7: a present status that shows another application makes the iteration
\* busy: no display command is issued in it, and main() goes to the poll
\* sleep and polls again.
C7_BusyNeverCasts ==
    [][ /\ (pc = "name_backdrop" /\ MainStep /\ ShowsOtherApp) => pc' = "name_receiver"
        /\ (pc = "name_receiver" /\ MainStep /\ ShowsOtherApp) =>
              (pc' = "poll_sleep" /\ classified' = "busy")
        /\ classified' = "busy" =>
              (commands' = 0 /\ pc' = "poll_sleep" /\ played' = NoCommand)
        /\ (classified = "busy" /\ MainStep) => pc' = "loop"
      ]_vars

\* C7 witness: an iteration found another application and sleeps
C7_Witness ==
    /\ classified = "busy"
    /\ pc = "poll_sleep"
    /\ ShowsOtherApp

\* the photos of a bucket of the index
RECURSIVE Flatten(_)
Flatten(lists) == IF lists = <<>> THEN <<>> ELSE Head(lists) \o Flatten(Tail(lists))

Built == index.raised = None

\* the year directories that hold a usable photo
UsableYears == { i \in 1..Len(YearEntries(fs)) : Len(Flatten(YearPhotos(fs)[i])) > 0 }

\* C8: a year without a usable photo is in neither the bucket list nor the
\* weight list of the index.
C8_EmptyBucketsDropped ==
    Built =>
        /\ Len(index.year_weights) = Len(index.year_photos)
        /\ Len(index.year_photos) = Cardinality(UsableYears)
        /\ \A i \in 1..Len(index.year_photos) : Len(Flatten(index.year_photos[i])) > 0

\* C9: sampling an index of one bucket that holds one photo returns that
\* photo, whatever the progress through the year was when it was built.
C9_SinglePhotoReturned ==
    ( /\ Built
      /\ sample /= NoSample
      /\ Len(index.year_photos) = 1
      /\ Len(Flatten(index.year_photos[1])) = 1 ) =>
        sample = Returned(Flatten(index.year_photos[1])[1])

\* C10: bucket i weighs 2^i, and the last bucket 2^(n-1) times the elapsed
\* fraction of the year when it is the current year, with no rounding.
C10_WeightsNotRounded ==
    Built =>
        LET n == Len(index.year_weights)
            progress == year_progress(index.time)
            latest == ParseInt(YearEntries(fs)[n].name)
        IN  /\ \A i \in 1..(n - 1) : index.year_weights[i] = Pow(2, i - 1)
            /\ IF latest = YearOf(index.time)
               THEN index.year_weights[n] * progress.den = Pow(2, n - 1) * progress.num
               ELSE index.year_weights[n] = Pow(2, n - 1)

\* C11: the index main() holds always has a bucket with a photo in it: a
\* rebuild that finds nothing usable fails and installs nothing.
C11_SnapshotNeverEmpty ==
    Built => \E i \in 1..Len(index.year_photos) : Len(Flatten(index.year_photos[i])) > 0

\* C12: while some bucket of the index holds a photo, get_random_photo does
\* not raise because the bucket it drew is empty (it draws again).
C12_EmptyDrawResampled ==
    ( /\ Built
      /\ sample /= NoSample
      /\ \E i \in 1..Len(index.year_photos) : Len(Flatten(index.year_photos[i])) > 0 ) =>
        sample.raised /= "IndexError"

\* C13: is_outdated is true exactly when the index is older than the interval,
\* strictly; main() replaces its index only at line 233 or at a check of
\* lines 248 and 266 that finds it older than the interval, and does replace
\* it there; an index of at most the interval's age is kept; a call of
\* get_random_photo leaves the index as it is.
C13_RebuildOnlyWhenOutdated ==
    [][ /\ (index' /= index) =>
              \/ pc = "index"
              \/ pc \in {"loop", "session"} /\ now - index.time > PHOTO_INDEX_INTERVAL_SECS
              \/ pc = "library" /\ sample' = NoSample
        /\ (pc \in {"loop", "session"} /\ MainStep
              /\ now - index.time <= PHOTO_INDEX_INTERVAL_SECS) =>
              index' = index /\ pc' /= "crashed"
        /\ (pc \in {"loop", "session"} /\ MainStep /\ pc' /= "crashed"
              /\ now - index.time > PHOTO_INDEX_INTERVAL_SECS) =>
              index'.time = now
        /\ (sample' /= sample /\ sample' /= NoSample) => index' = index
      ]_vars

\* an index built after the start that passed the check of line 266 and is now
\* exactly the interval old
C13_Witness ==
    /\ pc = "play"
    /\ Built
    /\ index.time > 0
    /\ now - index.time = PHOTO_INDEX_INTERVAL_SECS

\* C14: every display command of a session after the first is for a URL that
\* main() has fetched itself at least once before.
C14_CommandedAfterPrefetch ==
    [][ (IssuesCommand /\ commands >= 1) => played'.url \in Prefetched ]_vars

\* C15: a failed construction of the index leaves the index variable as it
\* was, the previous complete index included, and the exception reaches the
\* caller.
C15_FailedRebuildKeepsIndex ==
    [][ (pc \in {"index", "loop", "session"} /\ pc' = "crashed") =>
            (index' = index /\ error' /= None) ]_vars

\* a rebuild has failed while an earlier index was held
C15_Witness ==
    /\ pc = "crashed"
    /\ error = "OSError"
    /\ Built
    /\ index.time < now

\* the photos of a sub-directory list, whatever their positions
PhotoSet(photos) == { photos[k] : k \in 1..Len(photos) }

\* C16 as stated: an index built over an index of the same unchanged photo
\* directory has the same photos in the same positions, in whatever order the
\* directories are listed.
C16_SamePositions ==
    [][ (pc = "library" /\ Built /\ index' /= index) =>
            index'.year_photos = index.year_photos ]_vars

\* C16: an index built over an index of the same unchanged photo directory
\* has the same years in the same positions, in each year the same
\* sub-directories in the same positions, and in each sub-directory the same
\* photos, in whatever order the directories are listed; the position of a
\* photo within its sub-directory follows the listing.
C16_SameContents ==
    [][ (pc = "library" /\ Built /\ index' /= index) =>
            /\ Len(index'.year_photos) = Len(index.year_photos)
            /\ \A i \in 1..Len(index.year_photos) :
                  /\ Len(index'.year_photos[i]) = Len(index.year_photos[i])
                  /\ \A j \in 1..Len(index.year_photos[i]) :
                        /\ Len(index'.year_photos[i][j]) = Len(index.year_photos[i][j])
                        /\ PhotoSet(index'.year_photos[i][j])
                               = PhotoSet(index.year_photos[i][j])
      ]_vars

\* an index of several years built from a listing in the opposite order, with
\* a photo placed differently than the plain listing places it
C16_Witness ==
    /\ pc = "library"
    /\ Built
    /\ Len(index.year_photos) > 1
    /\ index.year_photos = YearPhotos(Relisted(fs))
    /\ index.year_photos /= YearPhotos(fs)

\* the year a bucket with photos was built from: the first component of the
\* relative path of its photos
BucketYear(bucket) == ParseInt(Flatten(bucket)[1][1][1])

\* C17: the buckets of an index are in ascending order of their year, whatever
\* the digit lengths of the year directories' names.
C17_BucketsChronological ==
    Built =>
        \A i, j \in 1..Len(index.year_photos) :
            ( /\ i < j
              /\ Len(Flatten(index.year_photos[i])) > 0
              /\ Len(Flatten(index.year_photos[j])) > 0 ) =>
                BucketYear(index.year_photos[i]) < BucketYear(index.year_photos[j])

\* C18: with every weight zero, a call of get_random_photo raises and returns
\* no photo.
C18_ZeroWeightsRaise ==
    ( /\ Built
      /\ sample /= NoSample
      /\ \A i \in 1..Len(index.year_weights) : index.year_weights[i] = 0 ) =>
        sample = Raised("ValueError")

\* a call on an index that holds a photo and has only zero weights has raised
C18_Witness ==
    /\ Built
    /\ \A i \in 1..Len(index.year_weights) : index.year_weights[i] = 0
    /\ \E i \in 1..Len(index.year_photos) : Len(Flatten(index.year_photos[i])) > 0
    /\ sample = Raised("ValueError")

\* every photo of an index
AllPhotos(idx) == Flatten(Flatten(idx.year_photos))

\* C19: every photo of an index has one of the six supported content types,
\* which is the type of its file name; a file of another or of no type is in
\* no index, at whatever depth it lies.
C19_OnlySupportedTypes ==
    Built =>
        \A k \in 1..Len(AllPhotos(index)) :
            LET photo == AllPhotos(index)[k]
                name == photo[1][Len(photo[1])]
            IN  /\ photo[2] \in { "image/apng", "image/bmp", "image/gif",
                                  "image/jpeg", "image/png", "image/webp" }
                /\ photo[2] = GuessType(name)
                /\ name \notin { FTxt, FRaw }

\* an index with a photo of a nested directory, which lies beside a text file
C19_Witness ==
    /\ Built
    /\ \E k \in 1..Len(AllPhotos(index)) :
          /\ Len(AllPhotos(index)[k][1]) = 4
          /\ AllPhotos(index)[k][1][3] = NAlb

\* C20: within a session, a display command is followed by one display sleep
\* and then one status read; only a read of 'Default Media Receiver' leads to
\* the next command; the first command of a session follows the outer check
\* with no display sleep before it.
C20_CheckBetweenCommands ==
    [][ /\ (pc = "play" /\ MainStep) => pc' = "display_sleep"
        /\ (pc = "display_sleep" /\ MainStep) => pc' = "recheck"
        /\ (pc = "recheck" /\ MainStep /\ pc' /= "crashed") =>
              pc' = IF DisplayNameIs(DefaultMediaReceiver) THEN "session" ELSE "poll_sleep"
        /\ (pc' = "play" /\ MainStep) => pc = "session"
        /\ (pc' = "session" /\ MainStep) =>
              \/ pc = "recheck" /\ commands >= 1
              \/ pc \in {"name_backdrop", "name_receiver"} /\ commands = 0
      ]_vars

\* the second command of a session is being shown
C20_Witness ==
    /\ pc = "display_sleep"
    /\ commands = 2
    /\ played /= NoCommand

====
